---- MODULE Spec2Model ----
(***************************************************************************)
(* Model of the novablick agent orchestration engine:                      *)
(*   - the queryDataset tool and its textual SQL guard (lib/ai/tools.ts),  *)
(*   - the streamAgent pipeline (lib/ai/agents.ts).                        *)
(* Texts are sequences of one-character strings, so that the guard's       *)
(* string operations (trim, toLowerCase, startsWith, includes, the two     *)
(* regular expressions) are computed character by character.               *)
(***************************************************************************)
EXTENDS Integers, Sequences, FiniteSets, TLC

(***************************************************************************)
(* JavaScript string primitives used by the guard                          *)
(***************************************************************************)
UpperLetters ==
  <<"A","B","C","D","E","F","G","H","I","J","K","L","M",
    "N","O","P","Q","R","S","T","U","V","W","X","Y","Z">>

LowerLetters ==
  <<"a","b","c","d","e","f","g","h","i","j","k","l","m",
    "n","o","p","q","r","s","t","u","v","w","x","y","z">>

DigitChars == {"0","1","2","3","4","5","6","7","8","9"}

UpperSet == {UpperLetters[i] : i \in 1..26}

LowerSet == {LowerLetters[i] : i \in 1..26}

IsUpper(c) == c \in UpperSet

IsLower(c) == c \in LowerSet

toLowerCaseChar(c) ==
  IF IsUpper(c) THEN LowerLetters[CHOOSE i \in 1..26 : UpperLetters[i] = c] ELSE c

toUpperCaseChar(c) ==
  IF IsLower(c) THEN UpperLetters[CHOOSE i \in 1..26 : LowerLetters[i] = c] ELSE c

\* The text with its letters as they are.
keepCase(s) == s

toLowerCase(s) == [i \in 1..Len(s) |-> toLowerCaseChar(s[i])]

toUpperCase(s) == [i \in 1..Len(s) |-> toUpperCaseChar(s[i])]

IsWhiteSpace(c) == c \in {" ", "\t", "\n", "\r"}

\* String.prototype.trim: drop leading and trailing white space.
trim(s) ==
  LET keep == {i \in 1..Len(s) : ~IsWhiteSpace(s[i])}
  IN  IF keep = {} THEN <<>>
      ELSE LET lo == CHOOSE i \in keep : \A j \in keep : i <= j
               hi == CHOOSE i \in keep : \A j \in keep : j <= i
           IN  SubSeq(s, lo, hi)

\* s has p at position i (1-based).
HasAt(s, i, p) ==
  /\ i >= 1
  /\ i + Len(p) - 1 <= Len(s)
  /\ \A k \in 1..Len(p) : s[i + k - 1] = p[k]

startsWith(s, p) == HasAt(s, 1, p)

includes(s, p) == \E i \in 1..(Len(s) + 1) : HasAt(s, i, p)

RECURSIVE join(_, _)
\* Array.prototype.join of an array of texts.
join(arr, sep) ==
  IF Len(arr) = 0 THEN <<>>
  ELSE IF Len(arr) = 1 THEN arr[1]
  ELSE arr[1] \o sep \o join(Tail(arr), sep)

\* Array.prototype.includes.
arrayIncludes(arr, x) == \E i \in 1..Len(arr) : arr[i] = x

(***************************************************************************)
(* Regular expressions of validateSQLQuery                                 *)
(***************************************************************************)
\* \w of a JavaScript RegExp.
IsWordChar(c) == IsUpper(c) \/ IsLower(c) \/ c \in DigitChars \/ c = "_"

\* \b between s[i-1] and s[i]; outside the text counts as a non-word character.
WordBoundary(s, i) ==
  LET before == i - 1 >= 1 /\ i - 1 <= Len(s) /\ IsWordChar(s[i - 1])
      after  == i >= 1 /\ i <= Len(s) /\ IsWordChar(s[i])
  IN  before # after

\* p (lower case) at position i of s, letter case ignored (the "i" flag).
HasAtIgnoreCase(s, i, p) ==
  /\ i >= 1
  /\ i + Len(p) - 1 <= Len(s)
  /\ \A k \in 1..Len(p) : toLowerCaseChar(s[i + k - 1]) = p[k]

\* The test without the "i" flag.
keywordRegexTestCaseSensitive(keyword, s) ==
  \E i \in 1..Len(s) :
    /\ HasAt(s, i, keyword)
    /\ WordBoundary(s, i)
    /\ WordBoundary(s, i + Len(keyword))

\* new RegExp(`\\b${keyword}\\b`, "i").test(s)
keywordRegexTest(keyword, s) ==
  \E i \in 1..Len(s) :
    /\ HasAtIgnoreCase(s, i, keyword)
    /\ WordBoundary(s, i)
    /\ WordBoundary(s, i + Len(keyword))

RECURSIVE SkipWhile(_, _, _)
\* The first position >= i of s whose character is not in class (Len(s)+1 if none).
SkipWhile(s, i, class) ==
  IF i <= Len(s) /\ s[i] \in class THEN SkipWhile(s, i + 1, class) ELSE i

WhiteSpaceChars == {" ", "\t", "\n", "\r"}

QuoteChars == {"'", "\""}

\* [a-f0-9-] under the "i" flag.
IdChars == DigitChars \cup {"-"} \cup {"a","b","c","d","e","f","A","B","C","D","E","F"}

NoMatch == [ok |-> FALSE, id |-> <<>>, end |-> 0]

\* One attempt of /dataset_id\s*(?:=|in)\s*\(?['"]([a-f0-9-]+)['"]\)?/gi at position i.
datasetIdPatternAt(s, i) ==
  IF ~HasAtIgnoreCase(s, i, <<"d","a","t","a","s","e","t","_","i","d">>) THEN NoMatch
  ELSE
    LET p2 == SkipWhile(s, i + 10, WhiteSpaceChars)
        p3 == IF HasAt(s, p2, <<"=">>) THEN p2 + 1
              ELSE IF HasAtIgnoreCase(s, p2, <<"i","n">>) THEN p2 + 2
              ELSE 0
    IN  IF p3 = 0 THEN NoMatch
        ELSE
          LET p4 == SkipWhile(s, p3, WhiteSpaceChars)
              p5 == IF HasAt(s, p4, <<"(">>) THEN p4 + 1 ELSE p4
              p6 == p5 + 1
              p7 == SkipWhile(s, p6, IdChars)
              p8 == p7 + 1
          IN  IF /\ p5 <= Len(s) /\ s[p5] \in QuoteChars
                 /\ p7 > p6
                 /\ p7 <= Len(s) /\ s[p7] \in QuoteChars
              THEN [ok  |-> TRUE,
                    id  |-> SubSeq(s, p6, p7 - 1),
                    end |-> IF HasAt(s, p8, <<")">>) THEN p8 + 1 ELSE p8]
              ELSE NoMatch

\* The validations made so far by one process, oldest first.
VARIABLE validations

\* A pattern object kept from one validation to the next, with the lastIndex
\* the scan of the last query left in it.
lastIndexKept ==
  IF validations = <<>> THEN 0 ELSE Len(validations[Len(validations)].sqlQuery)

\* datasetIdPattern is a regex literal in the body of validateSQLQuery: every
\* call makes a new object, whose lastIndex is 0, and matchAll scans a clone
\* of it.
lastIndex == 0

RECURSIVE matchAllFrom(_, _)
\* [...query.matchAll(datasetIdPattern)] as the list of captured ids (match[1]):
\* the scan resumes at the end of each match.
matchAllFrom(s, pos) ==
  IF pos > Len(s) THEN <<>>
  ELSE LET m == datasetIdPatternAt(s, pos)
       IN  IF m.ok THEN <<m.id>> \o matchAllFrom(s, m.end)
           ELSE matchAllFrom(s, pos + 1)

matchAll(s) == matchAllFrom(s, lastIndex + 1)

(***************************************************************************)
(* validateSQLQuery                                                        *)
(***************************************************************************)
dangerousKeywords ==
  << <<"i","n","s","e","r","t">>,
     <<"u","p","d","a","t","e">>,
     <<"d","e","l","e","t","e">>,
     <<"d","r","o","p">>,
     <<"t","r","u","n","c","a","t","e">>,
     <<"a","l","t","e","r">>,
     <<"c","r","e","a","t","e">>,
     <<"e","x","e","c">>,
     <<"e","x","e","c","u","t","e">>,
     <<"g","r","a","n","t">>,
     <<"r","e","v","o","k","e">> >>

\* The fixed parts of the messages.  A message is the list of the segments of
\* its template literal: fixed parts, interpolated texts, interpolated numbers.
Lit(string) == [fixed |-> string, text |-> <<>>, num |-> -1]

Txt(text) == [fixed |-> "", text |-> text, num |-> -1]

Num(n) == [fixed |-> "", text |-> <<>>, num |-> n]

MsgOnlySelect ==
  "Only SELECT queries are allowed. UPDATE, DELETE, DROP, INSERT, and other operations are forbidden."

MsgForbiddenPrefix == "Forbidden SQL keyword detected: "

MsgForbiddenSuffix == ". Only SELECT queries are allowed."

MsgMustReference == "Query must reference the \"dataset_rows\" table."

MsgMustFilter ==
  "Query must filter by dataset_id in the WHERE clause. You can only query these datasets: "

MsgAccessDeniedPrefix == "Access denied: Dataset ID \""

MsgAccessDeniedMiddle == "\" is not in the allowed list. Allowed IDs: "

Valid == [valid |-> TRUE, error |-> <<>>]

\* `Forbidden SQL keyword detected: ${keyword.toUpperCase()}. Only SELECT queries are allowed.`
forbiddenKeywordError(keyword) ==
  <<Lit(MsgForbiddenPrefix), Txt(toUpperCase(keyword)), Lit(MsgForbiddenSuffix)>>

\* `Query must filter by dataset_id ... these datasets: ${allowedDatasetIds.join(", ")}`
mustFilterError(allowedDatasetIds) ==
  <<Lit(MsgMustFilter), Txt(join(allowedDatasetIds, <<",", " ">>))>>

\* The message listing only the first allowed id.
accessDeniedErrorFirstOnly(referencedId, allowedDatasetIds) ==
  <<Lit(MsgAccessDeniedPrefix), Txt(referencedId), Lit(MsgAccessDeniedMiddle),
    Txt(IF Len(allowedDatasetIds) = 0 THEN <<>> ELSE allowedDatasetIds[1])>>

\* `Access denied: Dataset ID "${referencedId}" is not in the allowed list.
\*  Allowed IDs: ${allowedDatasetIds.join(", ")}`
accessDeniedError(referencedId, allowedDatasetIds) ==
  <<Lit(MsgAccessDeniedPrefix), Txt(referencedId), Lit(MsgAccessDeniedMiddle),
    Txt(join(allowedDatasetIds, <<",", " ">>))>>

Invalid(segments) == [valid |-> FALSE, error |-> segments]

\* The first keyword of dangerousKeywords, in list order, found in query.
firstDangerousKeyword(query) ==
  LET hits == {k \in 1..Len(dangerousKeywords) :
                 keywordRegexTest(dangerousKeywords[k], query)}
  IN  IF hits = {} THEN 0 ELSE CHOOSE k \in hits : \A j \in hits : k <= j

\* An empty allowed list taken as no restriction at all.
firstUnauthorizedUnlessEmpty(matches, allowedDatasetIds) ==
  LET bad == {k \in 1..Len(matches) : ~arrayIncludes(allowedDatasetIds, matches[k])}
  IN  IF bad = {} \/ allowedDatasetIds = <<>> THEN 0
      ELSE CHOOSE k \in bad : \A j \in bad : k <= j

\* The first referenced id, in match order, that is not in the allowed list.
firstUnauthorized(matches, allowedDatasetIds) ==
  LET bad == {k \in 1..Len(matches) : ~arrayIncludes(allowedDatasetIds, matches[k])}
  IN  IF bad = {} THEN 0 ELSE CHOOSE k \in bad : \A j \in bad : k <= j

\* The checks with the filter check made before the keyword check.
validateFilterFirst(query, allowedDatasetIds) ==
  LET normalizedQuery == toLowerCase(trim(query))
      kw      == firstDangerousKeyword(query)
      matches == matchAll(query)
      bad     == firstUnauthorized(matches, allowedDatasetIds)
  IN  IF ~startsWith(normalizedQuery, <<"s","e","l","e","c","t">>)
        THEN Invalid(<<Lit(MsgOnlySelect)>>)
      ELSE IF Len(matches) = 0
        THEN Invalid(mustFilterError(allowedDatasetIds))
      ELSE IF kw # 0
        THEN Invalid(forbiddenKeywordError(dangerousKeywords[kw]))
      ELSE IF ~includes(normalizedQuery,
                        <<"d","a","t","a","s","e","t","_","r","o","w","s">>)
        THEN Invalid(<<Lit(MsgMustReference)>>)
      ELSE IF bad # 0
        THEN Invalid(accessDeniedError(matches[bad], allowedDatasetIds))
      ELSE Valid

\* The checks with the keyword check made before the SELECT check.
validateKeywordsFirst(query, allowedDatasetIds) ==
  LET normalizedQuery == toLowerCase(trim(query))
      kw      == firstDangerousKeyword(query)
      matches == matchAll(query)
      bad     == firstUnauthorized(matches, allowedDatasetIds)
  IN  IF kw # 0
        THEN Invalid(forbiddenKeywordError(dangerousKeywords[kw]))
      ELSE IF ~startsWith(normalizedQuery, <<"s","e","l","e","c","t">>)
        THEN Invalid(<<Lit(MsgOnlySelect)>>)
      ELSE IF ~includes(normalizedQuery,
                        <<"d","a","t","a","s","e","t","_","r","o","w","s">>)
        THEN Invalid(<<Lit(MsgMustReference)>>)
      ELSE IF Len(matches) = 0
        THEN Invalid(mustFilterError(allowedDatasetIds))
      ELSE IF bad # 0
        THEN Invalid(accessDeniedError(matches[bad], allowedDatasetIds))
      ELSE Valid

validateSQLQuery(query, allowedDatasetIds) ==
  LET normalizedQuery == toLowerCase(trim(query))
      kw      == firstDangerousKeyword(query)
      matches == matchAll(query)
      bad     == firstUnauthorized(matches, allowedDatasetIds)
  IN  IF ~startsWith(normalizedQuery, <<"s","e","l","e","c","t">>)
        THEN Invalid(<<Lit(MsgOnlySelect)>>)
      ELSE IF kw # 0
        THEN Invalid(forbiddenKeywordError(dangerousKeywords[kw]))
      ELSE IF ~includes(normalizedQuery,
                        <<"d","a","t","a","s","e","t","_","r","o","w","s">>)
        THEN Invalid(<<Lit(MsgMustReference)>>)
      ELSE IF Len(matches) = 0
        THEN Invalid(mustFilterError(allowedDatasetIds))
      ELSE IF bad # 0
        THEN Invalid(accessDeniedError(matches[bad], allowedDatasetIds))
      ELSE Valid

(***************************************************************************)
(* Queries offered to the tool.  A query is kept as the parts it is built  *)
(* from; Render gives the text the tool receives.  The parts carry the     *)
(* meaning PostgreSQL gives the text, which the guard never sees.          *)
(***************************************************************************)
IdA == <<"a","1">>

IdB == <<"b","2">>

IdC == <<"c","3">>

\* A literal that is no hexadecimal id (not the text of any uuid).
IdG == <<"g","7">>

Leads == {<<>>, <<"\n"," ">>}

Heads == {"SELECT", "select", "SeLeCt", "DROP", "DeLeTe", "updated_at"}

HeadText(h) ==
  CASE h = "SELECT"     -> <<"S","E","L","E","C","T"," ","*"," ","F","R","O","M"," ">>
    [] h = "select"     -> <<"s","e","l","e","c","t"," ","*"," ","f","r","o","m"," ">>
    [] h = "SeLeCt"     -> <<"S","e","L","e","C","t"," ","*"," ","F","R","O","M"," ">>
    [] h = "DROP"       -> <<"D","R","O","P"," ","T","A","B","L","E"," ">>
    [] h = "DeLeTe"     -> <<"D","e","L","e","T","e"," ","F","R","O","M"," ">>
    [] h = "updated_at" -> <<"S","E","L","E","C","T"," ","u","p","d","a","t","e","d","_","a","t",
                             " ","F","R","O","M"," ">>

Tables == {"dataset_rows", "rows", "users"}

TableText(t) ==
  CASE t = "dataset_rows" -> <<"d","a","t","a","s","e","t","_","r","o","w","s">>
    [] t = "rows"         -> <<"r","o","w","s">>
    [] t = "users"        -> <<"u","s","e","r","s">>

\* WHERE clauses: none; dataset_id = '<id>'; dataset_id IN ('<id>', '<id>');
\* dataset_id = "<id>" (a comparison with a quoted identifier, which is no
\* literal in PostgreSQL); a condition on another column.
Wheres ==
  {[kind |-> "none", ids |-> <<>>], [kind |-> "other", ids |-> <<>>]}
  \cup {[kind |-> "eq", ids |-> <<i>>] : i \in {IdA, IdB, IdC, IdG}}
  \cup {[kind |-> "in", ids |-> l] : l \in {<<IdA, IdB>>, <<IdA, IdC>>, <<IdC, IdA>>}}
  \cup {[kind |-> "ident", ids |-> <<IdA>>]}

WhereText(w) ==
  CASE w.kind = "none"  -> <<>>
    [] w.kind = "other" -> <<" ","W","H","E","R","E"," ","r","o","w","_","n","u","m","b","e","r",
                             " ","="," ","1">>
    [] w.kind = "eq"    -> <<" ","W","H","E","R","E"," ","d","a","t","a","s","e","t","_","i","d",
                             " ","="," ","'">> \o w.ids[1] \o <<"'">>
    [] w.kind = "in"    -> <<" ","W","H","E","R","E"," ","d","a","t","a","s","e","t","_","i","d",
                             " ","I","N"," ","(","'">> \o join(w.ids, <<"'",","," ","'">>)
                             \o <<"'",")">>
    [] w.kind = "ident" -> <<" ","W","H","E","R","E"," ","d","a","t","a","s","e","t","_","i","d",
                             " ","="," ","\"">> \o w.ids[1] \o <<"\"">>

\* The eleven mutating words, as the documentation of the guard lists them.
MutatingWords ==
  << <<"i","n","s","e","r","t">>, <<"u","p","d","a","t","e">>,
     <<"d","e","l","e","t","e">>, <<"d","r","o","p">>,
     <<"t","r","u","n","c","a","t","e">>, <<"a","l","t","e","r">>,
     <<"c","r","e","a","t","e">>, <<"e","x","e","c">>,
     <<"e","x","e","c","u","t","e">>, <<"g","r","a","n","t">>,
     <<"r","e","v","o","k","e">> >>

\* What follows the WHERE clause: nothing, " OR 1=1", a UNION branch on users,
\* a trailing line comment, a trailing DROP statement, a LIMIT clause, an
\* ORDER BY on a key named 'limit', or a trailing statement "; <word> x" made
\* of the k-th mutating word in upper or in mixed case.
PlainTails ==
  {[kind |-> t, k |-> 0, upper |-> FALSE] :
     t \in {"none", "or_true", "union_users", "comment", "drop_users", "limit_50",
            "limit_5000", "order_by_limit"}}

WordTails == [kind : {"word"}, k : 1..Len(MutatingWords), upper : BOOLEAN]

Tails == PlainTails \cup WordTails

\* The word with its first letter in upper case.
Capitalized(w) == <<toUpperCaseChar(w[1])>> \o Tail(w)

TailText(t) ==
  CASE t.kind = "none"           -> <<>>
    [] t.kind = "or_true"        -> <<" ","O","R"," ","1","=","1">>
    [] t.kind = "union_users"    -> <<" ","U","N","I","O","N"," ","S","E","L","E","C","T"," ","*",
                                      " ","F","R","O","M"," ","u","s","e","r","s">>
    [] t.kind = "comment"        -> <<" ","-","-"," ","n","o","t","e">>
    [] t.kind = "drop_users"     -> <<";"," ","D","R","O","P"," ","T","A","B","L","E"," ",
                                      "u","s","e","r","s",";">>
    [] t.kind = "limit_50"       -> <<" ","L","I","M","I","T"," ","5","0">>
    [] t.kind = "limit_5000"     -> <<" ","l","i","m","i","t"," ","5","0","0","0">>
    [] t.kind = "order_by_limit" -> <<" ","O","R","D","E","R"," ","B","Y"," ","d","a","t","a",
                                      "-",">",">","'","l","i","m","i","t","'">>
    [] t.kind = "word"           -> <<";"," ">>
                                    \o (IF t.upper THEN toUpperCase(MutatingWords[t.k])
                                        ELSE Capitalized(MutatingWords[t.k]))
                                    \o <<" ","x">>

NoTail == [kind |-> "none", k |-> 0, upper |-> FALSE]

\* Every combination of parts on dataset_rows; the other tables without a tail;
\* leading white space before the plain statements.
Queries ==
  {q \in [lead : Leads, head : Heads, table : Tables, where : Wheres, tail : Tails] :
     /\ q.table # "dataset_rows" => q.tail = NoTail
     /\ q.lead # <<>> => /\ q.table = "dataset_rows"
                        /\ q.tail = NoTail
                        /\ q.where \in {[kind |-> "none", ids |-> <<>>],
                                        [kind |-> "eq", ids |-> <<IdA>>]}
     /\ q.tail.kind = "word" => /\ q.head = "SELECT"
                                /\ q.table = "dataset_rows"
                                /\ q.where = [kind |-> "eq", ids |-> <<IdA>>]}

Render(q) == q.lead \o HeadText(q.head) \o TableText(q.table) \o WhereText(q.where)
             \o TailText(q.tail)

(***************************************************************************)
(* The store behind db.execute: PostgreSQL holding dataset_rows (rows      *)
(* grouped by their dataset_id) and another table, users.  A store gives   *)
(* the number of rows of each source; a result gives the number of rows    *)
(* returned from each source.                                              *)
(***************************************************************************)
RowCap == 1000

Few == 2

Many == RowCap + Few

DatasetSources == {"ds_a1", "ds_b2", "ds_c3"}

Sources == DatasetSources \cup {"users"}

SourceOrder == <<"ds_a1", "ds_b2", "ds_c3", "users">>

\* The rows of dataset_rows whose dataset_id is id (no rows for any other literal).
SourceOf(id) ==
  CASE id = IdA -> "ds_a1"
    [] id = IdB -> "ds_b2"
    [] id = IdC -> "ds_c3"
    [] OTHER    -> "no_rows"

Stores ==
  {[s \in Sources |-> Few],
   [s \in Sources |-> Many],
   [s \in Sources |-> IF s = "ds_a1" THEN Many ELSE Few]}

Min(a, b) == IF a <= b THEN a ELSE b

RECURSIVE SumFrom(_, _)
SumFrom(f, k) ==
  IF k > Len(SourceOrder) THEN 0 ELSE f[SourceOrder[k]] + SumFrom(f, k + 1)

\* result.rows.length
RowsLength(rows) == SumFrom(rows, 1)

RECURSIVE TakeFrom(_, _, _)
\* The first n rows of f, in source order, as the counts taken from source k on.
TakeFrom(f, n, k) ==
  IF k > Len(SourceOrder) THEN <<>>
  ELSE LET c == Min(f[SourceOrder[k]], n)
       IN  <<c>> \o TakeFrom(f, n - c, k + 1)

Take(f, n) ==
  LET t == TakeFrom(f, n, 1)
  IN  [s \in Sources |-> t[CHOOSE k \in 1..Len(SourceOrder) : SourceOrder[k] = s]]

LimitSuffix == <<" ","L","I","M","I","T"," ","1","0","0","0">>

\* The statement fails in PostgreSQL: no table "rows", no column dataset_id in
\* users, a quoted identifier that names no column.
PgFails(q) ==
  \/ q.table = "rows"
  \/ q.table = "users" /\ q.where.kind \in {"eq", "in", "ident"}
  \/ q.where.kind = "ident"
  \/ q.where.kind = "none" /\ q.tail.kind = "or_true"

\* The rows the statement's WHERE clause selects from source s.
PgSelected(q, store, s) ==
  IF s = "users"
    THEN (IF q.table = "users" \/ q.tail.kind = "union_users" THEN store[s] ELSE 0)
  ELSE IF q.table # "dataset_rows" THEN 0
  ELSE IF q.tail.kind = "or_true" THEN store[s]
  ELSE CASE q.where.kind = "none"  -> store[s]
         [] q.where.kind = "other" -> Min(1, store[s])
         [] q.where.kind \in {"eq", "in"} ->
              IF \E k \in 1..Len(q.where.ids) : SourceOf(q.where.ids[k]) = s
              THEN store[s] ELSE 0
         [] OTHER -> 0

\* The row limit in force for the executed text: the statement's own LIMIT
\* clause, else an appended LIMIT 1000 unless it lands in a trailing line
\* comment; 0 when there is none.
PgLimit(q, text) ==
  IF q.tail.kind = "limit_50" THEN 50
  ELSE IF q.tail.kind = "limit_5000" THEN 5000
  ELSE IF text = Render(q) \o LimitSuffix /\ q.tail.kind # "comment" THEN RowCap
  ELSE 0

\* db.execute(sql.raw(text)) on a SELECT statement: the rows returned (rows
\* come in source order, so that a limit keeps the first ones).
PgRows(q, text, store) ==
  LET all == [s \in Sources |-> PgSelected(q, store, s)]
      lim == PgLimit(q, text)
  IN  IF lim = 0 THEN all ELSE Take(all, lim)

(***************************************************************************)
(* createQueryDatasetTool(allowedDatasetIds).execute                       *)
(***************************************************************************)
Null == [null |-> TRUE]

Rows(r) == [null |-> FALSE, count |-> r]

\* What the environment does to one db.execute call: nothing, a rejection with
\* an Error, a rejection with a value that is no Error.
Faults == {"none", "Error", "nonError"}

MsgUnknownError == "Unknown error"

MsgSuccessPrefix == "Successfully executed SQL query and returned "

MsgSuccessSuffix == " rows."

Returned(v) == [threw |-> FALSE, value |-> v]

Thrown(x) == [threw |-> TRUE, thrown |-> x]

\* await db.execute(sql.raw(text)): the rows, or what the promise rejects with.
dbExecute(q, text, store, fault) ==
  IF fault = "nonError"
    THEN Thrown([isError |-> FALSE, message |-> "Unknown error type"])
  ELSE IF fault = "Error"
    THEN Thrown([isError |-> TRUE, message |-> "Database connection failed"])
  ELSE IF PgFails(q)
    THEN Thrown([isError |-> TRUE, message |-> "relation or column does not exist"])
  ELSE Returned(PgRows(q, text, store))

\* The text handed to db.execute for an accepted query.
withSafetyLimit(sqlQuery) ==
  IF includes(toLowerCase(sqlQuery), <<"l","i","m","i","t">>)
  THEN sqlQuery
  ELSE sqlQuery \o LimitSuffix

\* The value returned for a query the validation rejects.
rejectionResult(validation) ==
  Returned([success |-> FALSE, error |-> validation.error, rows |-> Null])

\* The value returned after db.execute resolved with rows.
successResult(rows) ==
  Returned([success  |-> TRUE,
            rowCount |-> RowsLength(rows),
            rows     |-> Rows(rows),
            message  |-> <<Lit(MsgSuccessPrefix), Num(RowsLength(rows)),
                           Lit(MsgSuccessSuffix)>>])

\* No catch clause: the rejection of db.execute leaves execute.
executeRethrow(error) == Thrown(error)

\* The catch clause.
executeCatch(error) ==
  Returned([success |-> FALSE,
            error   |-> <<Lit(IF error.isError THEN error.message ELSE MsgUnknownError)>>,
            rows    |-> Null])

(***************************************************************************)
(* State of one query tool and its store                                   *)
(***************************************************************************)
VARIABLES
  allowedDatasetIds,  \* the list the tool closes over
  store,              \* the rows behind db.execute
  toolPc,             \* "idle", "awaitDb" (inside await db.execute), "returned"
  call                \* the execute call in progress or just finished

toolVars == <<allowedDatasetIds, store, toolPc, call>>


\* Allowed lists a caller may give: none, one, two ids in either order.
Scopes == {<<>>, <<IdA>>, <<IdA, IdB>>, <<IdB, IdA>>}

NoCall == [made |-> FALSE]

ToolInit ==
  /\ allowedDatasetIds \in Scopes
  /\ store \in Stores
  /\ toolPc = "idle"
  /\ call = NoCall

\* execute({sqlQuery}) from its start to its first await or its return: the
\* validation, then either the rejection or the call of db.execute.
ExecuteStart(q) ==
  LET sqlQuery   == Render(q)
      validation == validateSQLQuery(sqlQuery, allowedDatasetIds)
  IN  /\ toolPc = "idle"
      /\ IF ~validation.valid
           THEN /\ toolPc' = "returned"
                /\ call' = [q |-> q, sqlQuery |-> sqlQuery, dbCalls |-> <<>>,
                            fault |-> "none",
                            outcome |-> rejectionResult(validation)]
           ELSE /\ toolPc' = "awaitDb"
                /\ call' = [q |-> q, sqlQuery |-> sqlQuery,
                            dbCalls |-> <<withSafetyLimit(sqlQuery)>>]
      /\ UNCHANGED <<allowedDatasetIds, store>>

\* db.execute settles and execute returns.
DbSettle(fault) ==
  LET result == dbExecute(call.q, call.dbCalls[1], store, fault)
  IN  /\ toolPc = "awaitDb"
      /\ toolPc' = "returned"
      /\ call' = [q |-> call.q, sqlQuery |-> call.sqlQuery, dbCalls |-> call.dbCalls,
                  fault |-> fault,
                  outcome |-> IF result.threw THEN executeCatch(result.thrown)
                              ELSE successResult(result.value)]
      /\ UNCHANGED <<allowedDatasetIds, store>>

\* The tool is stateless: after a call it is ready for the next one.
ToolReady ==
  /\ toolPc = "returned"
  /\ toolPc' = "idle"
  /\ call' = NoCall
  /\ UNCHANGED <<allowedDatasetIds, store>>

ToolNext ==
  \/ \E q \in Queries : ExecuteStart(q)
  \/ \E fault \in Faults : DbSettle(fault)
  \/ ToolReady

(***************************************************************************)
(* streamAgent: one invocation, from the call to its return or its throw.  *)
(* An action is the code between two awaits.  The LLM is the environment:  *)
(* it decides on planning, yields the plan's steps, answers each round of  *)
(* a step with a tool call or with text, and any awaited call may fail.    *)
(***************************************************************************)
MaxSteps == 2

\* stopWhen: stepCountIs(3) of a plan step, stepCountIs(5) of a direct response.
StepRounds == 3

DirectRounds == 5

\* Object.keys(availableTools)
availableTools ==
  <<"runCode", "queryDataset", "displayBarChart", "displayLineChart", "displayPieChart">>

DisplayTools == {"displayBarChart", "displayLineChart", "displayPieChart"}

ChartDisplayed == "Chart displayed successfully."

REASONING_MODEL == "gpt-5-nano"

NON_REASONING_MODEL == "gpt-4.1"

\* The tool lists the LLM gives a step, and the ids it gives.
ToolLists ==
  {<<>>, <<"displayBarChart">>, <<"queryDataset">>, <<"runCode", "displayLineChart">>}

StepIds == {"s1", "s2"}

\* Only the equality of two steps' ids matters: the first step has one id,
\* every later step the other, so that plans of three steps repeat an id.
FirstStepId == "s1"

StepIdAt(n) == IF n = 1 THEN FirstStepId ELSE CHOOSE id \in StepIds : id # FirstStepId

PlanSteps == [id : StepIds, tools : ToolLists]

VARIABLES
  pc,                 \* where streamAgent stands
  status,             \* "running", "returned", "threw"
  events,             \* what writer.write received, in order
  merged,             \* the streams given to writer.merge, in order
  steps,              \* the plan's steps array
  stepIdx,            \* the index of the step being executed
  round,              \* the LLM rounds of the current generateText so far
  chartShown,         \* a display tool returned ChartDisplayed in this generateText
  responseMessages,   \* result.response.messages of the current generateText
  executionMessages,
  modelMessages,
  rounds,             \* the LLM rounds made for the steps, with their tool choice
  seen,               \* the parts the response has serialised for the consumer
  probe,              \* a step's declared tools and the tools resolved for it
  cancelled,          \* the client has disconnected from the response
  invocations,        \* two calls of streamAgent: what each one closes over
  display             \* one call of a display tool: its input, its writer, its result

agentVars == <<pc, status, events, merged, steps, stepIdx, round, chartShown,
               responseMessages, executionMessages, modelMessages, rounds>>

streamVars == <<seen>>

probeVars == <<probe>>

cancelVars == <<cancelled>>

pairVars == <<invocations>>

validateVars == <<validations>>

displayVars == <<display>>

vars ==
  <<toolVars, agentVars, streamVars, probeVars, cancelVars, pairVars, validateVars,
    displayVars>>

\* No display tool called.
NoDisplay == [tool |-> "", called |-> FALSE]

\* A call of streamAgent not made yet.
NotInvoked ==
  [invoked |-> FALSE, selected |-> <<>>, allowedDatasetIds |-> <<>>, writer |-> <<>>,
   toolPc |-> "idle", call |-> NoCall]

Invocations == {1, 2}

NoProbe == [declared |-> <<>>, resolved |-> FALSE, tools |-> <<>>]

Event(type, id, step, completed, data) ==
  [type |-> type, id |-> id, step |-> step, completed |-> completed, data |-> data]

\* writer.write of a step-status part: id is the uuid made for the k-th
\* execution, data.id the id the LLM gave the step.
stepStatus(k, completed) ==
  Event("data-completedStepDataPart", k, steps[k].id, completed, "plan")

\* uuidv4() gives each call a value of its own: the reasoning span's, the
\* plan's, and k for the k-th execution of a step.
reasoningId == 100

planId == 200

\* writer.write of a plan part when the steps array holds n steps.  The part
\* holds the array itself (data: { steps }), not a copy of it.
planUpdate(n) == Event("data-planDataPart", planId, "", FALSE, n)

\* What generateObject resolves to: the decision and the reasoning for it.
Decisions ==
  {[requiresPlanning |-> TRUE, reasoning |-> "the query needs several steps"],
   [requiresPlanning |-> FALSE, reasoning |-> "the query is simple"]}

\* The delta written without the decision's reasoning.
reasoningSpanEndEmpty(planDecision) ==
  <<Event("reasoning-delta", reasoningId, "", FALSE, ""),
    Event("reasoning-end", reasoningId, "", FALSE, "")>>

\* Lines 105-113: the reasoning of the decision is written and the span closed.
reasoningSpanEnd(planDecision) ==
  <<Event("reasoning-delta", reasoningId, "", FALSE, planDecision.reasoning),
    Event("reasoning-end", reasoningId, "", FALSE, "")>>

Message(role, k, r) == [role |-> role, step |-> k, round |-> r, output |-> ""]

\* A failure told as an ordinary value.
toolMessageHidesFailure(k, r, t, ok) ==
  [role |-> "tool", step |-> k, round |-> r,
   output |-> IF t \in DisplayTools THEN ChartDisplayed ELSE "value"]

\* The tool message of a round: what the tool's execute returned, which is
\* ChartDisplayed, another value, or the value that tells a failure.
toolMessage(k, r, t, ok) ==
  [role |-> "tool", step |-> k, round |-> r,
   output |-> IF ~ok THEN "failure" ELSE IF t \in DisplayTools THEN ChartDisplayed ELSE "value"]

AgentInit ==
  /\ pc = "init"
  /\ status = "running"
  /\ events = <<>>
  /\ merged = <<>>
  /\ steps = <<>>
  /\ stepIdx = 0
  /\ round = 0
  /\ chartShown = FALSE
  /\ responseMessages = <<>>
  /\ executionMessages = <<>>
  /\ modelMessages = <<Message("user", 0, 0)>>
  /\ rounds = <<>>
  /\ seen = <<>>
  /\ cancelled = FALSE
  /\ invocations = [i \in Invocations |-> NotInvoked]
  /\ validations = <<>>
  /\ display = NoDisplay

\* Lines 50-104: the tools are made, reasoning-start is written, generateObject
\* is awaited.
Start ==
  /\ pc = "init"
  /\ events' = Append(events, Event("reasoning-start", reasoningId, "", FALSE, ""))
  /\ pc' = "awaitDecision"
  /\ UNCHANGED <<status, merged, steps, stepIdx, round, chartShown, responseMessages,
                 executionMessages, modelMessages, rounds>>

\* An awaited LLM call rejects: the error leaves streamAgent.
Throw ==
  /\ pc' = "done"
  /\ status' = "threw"

\* streamText(...) and writer.merge(result.toUIMessageStream(...)), then return.
mergeAndReturn(kind, model, tools, maxRounds, messages) ==
  /\ merged' = Append(merged, [kind |-> kind, model |-> model, tools |-> tools,
                               maxRounds |-> maxRounds, messages |-> messages])
  /\ pc' = "done"
  /\ status' = "returned"

\* generateObject rejects.
DecisionFails ==
  /\ pc = "awaitDecision"
  /\ Throw
  /\ UNCHANGED <<events, merged, steps, stepIdx, round, chartShown, responseMessages,
                 executionMessages, modelMessages, rounds>>

\* The direct response merged without the return that follows it: the plan
\* is generated all the same.
DecideDirectFallsThrough ==
  /\ pc = "awaitDecision"
  /\ \E planDecision \in Decisions :
       /\ ~planDecision.requiresPlanning
       /\ events' = events \o reasoningSpanEnd(planDecision)
  /\ merged' = Append(merged, [kind |-> "direct", model |-> NON_REASONING_MODEL,
                               tools |-> availableTools, maxRounds |-> DirectRounds,
                               messages |-> modelMessages])
  /\ pc' = "planning"
  /\ UNCHANGED <<status, steps, stepIdx, round, chartShown, responseMessages,
                 executionMessages, modelMessages, rounds>>

\* Lines 105-128: the decision arrives without planning: the reasoning span is
\* closed and the direct response is merged.
DecideDirect ==
  /\ pc = "awaitDecision"
  /\ \E planDecision \in Decisions :
       /\ ~planDecision.requiresPlanning
       /\ events' = events \o reasoningSpanEnd(planDecision)
  /\ mergeAndReturn("direct", NON_REASONING_MODEL, availableTools, DirectRounds, modelMessages)
  /\ UNCHANGED <<steps, stepIdx, round, chartShown, responseMessages,
                 executionMessages, modelMessages, rounds>>

\* Lines 105-155: the decision requires planning: the reasoning span is closed,
\* streamObject is called and the empty plan is written.
DecidePlan ==
  /\ pc = "awaitDecision"
  /\ \E planDecision \in Decisions :
       /\ planDecision.requiresPlanning
       /\ events' = events \o reasoningSpanEnd(planDecision) \o <<planUpdate(0)>>
  /\ pc' = "planning"
  /\ UNCHANGED <<status, merged, steps, stepIdx, round, chartShown, responseMessages,
                 executionMessages, modelMessages, rounds>>

\* Lines 156-163: elementStream yields a step.
PlanElement(step) ==
  /\ pc = "planning"
  /\ Len(steps) < MaxSteps
  /\ step.id = StepIdAt(Len(steps) + 1)
  /\ steps' = Append(steps, step)
  /\ events' = Append(events, planUpdate(Len(steps) + 1))
  /\ UNCHANGED <<pc, status, merged, stepIdx, round, chartShown, responseMessages,
                 executionMessages, modelMessages, rounds>>

\* The empty plan left without a reply.
PlanEndsEmptyNoReply ==
  /\ pc = "planning"
  /\ Len(steps) = 0
  /\ pc' = "done"
  /\ status' = "returned"
  /\ UNCHANGED <<events, merged, steps, stepIdx, round, chartShown, responseMessages,
                 executionMessages, modelMessages, rounds>>

\* Lines 166-179: elementStream ends with no step: the direct response with
\* every tool.
PlanEndsEmpty ==
  /\ pc = "planning"
  /\ Len(steps) = 0
  /\ mergeAndReturn("emptyPlan", REASONING_MODEL, availableTools, DirectRounds, modelMessages)
  /\ UNCHANGED <<events, steps, stepIdx, round, chartShown, responseMessages,
                 executionMessages, modelMessages, rounds>>

\* Names every object inherits from Object.prototype (some of them).
ObjectPrototypeNames == {"toString", "constructor", "valueOf", "hasOwnProperty"}

\* toolName in availableTools: true of the object's own keys and of the names
\* it inherits.
inAvailableTools(toolName) ==
  \/ \E i \in 1..Len(availableTools) : availableTools[i] = toolName
  \/ toolName \in ObjectPrototypeNames

\* The keys of acc after acc[toolName] = ... : a key is held once, where it
\* was first set.
setKey(acc, toolName) ==
  IF \E i \in 1..Len(acc) : acc[i] = toolName THEN acc ELSE Append(acc, toolName)

RECURSIVE reduceTools(_, _)
reduceTools(names, acc) ==
  IF names = <<>> THEN acc
  ELSE reduceTools(Tail(names),
                   IF inAvailableTools(Head(names)) THEN setKey(acc, Head(names)) ELSE acc)

\* Lines 193-202: the keys of the tools object the step is executed with.
resolveTools(step) == reduceTools(step.tools, <<>>)

\* Step k announced before the step before it is marked completed.
beginStepOverlapping(k, written) ==
  /\ events' = IF k > 1
                 THEN SubSeq(written, 1, Len(written) - 1)
                        \o <<stepStatus(k, FALSE), written[Len(written)]>>
                 ELSE Append(written, stepStatus(k, FALSE))
  /\ stepIdx' = k
  /\ round' = 0
  /\ chartShown' = FALSE
  /\ responseMessages' = <<>>
  /\ pc' = "inStep"

\* Lines 184-243 up to the await: step k is announced and generateText is called.
beginStep(k, written) ==
  /\ events' = Append(written, stepStatus(k, FALSE))
  /\ stepIdx' = k
  /\ round' = 0
  /\ chartShown' = FALSE
  /\ responseMessages' = <<>>
  /\ pc' = "inStep"

\* elementStream ends with steps: the loop starts with the first step.
PlanEnds ==
  /\ pc = "planning"
  /\ Len(steps) > 0
  /\ beginStep(1, events)
  /\ UNCHANGED <<status, merged, steps, executionMessages, modelMessages, rounds>>

\* Lines 220-242: the tool choice of the next round: the call's own, which
\* prepareStep turns to "auto" once a chart was displayed.
toolChoice(step, shown) ==
  IF shown THEN "auto"
  ELSE IF Len(step.tools) = 1 /\ step.tools[1] \in DisplayTools THEN "required"
  ELSE "auto"

\* generateText without stopWhen: it goes on as long as the last round called
\* a tool.
generatingUnbounded ==
  /\ pc = "inStep"
  /\ round > 0 => responseMessages[Len(responseMessages)].role = "tool"

\* generateText goes on: fewer than StepRounds rounds, and the last one called
\* a tool (or none was made yet).
generating ==
  /\ pc = "inStep"
  /\ round < StepRounds
  /\ round > 0 => responseMessages[Len(responseMessages)].role = "tool"

\* A round in which the LLM calls tool t of the step's tools.  A tool's failure
\* is a tool result like any other: execute of queryDataset and of runCode
\* return it (tools.ts lines 241-248, 263-269, 101-105), and a display tool
\* whose input is refused writes nothing.  With ok a display tool writes its
\* chart (lines 308-322) and returns ChartDisplayed.  On a step with several
\* tools a failed call leaves the events of a call of another tool, so the
\* failures are told apart on the steps with one tool.
RoundToolCall(t, ok) ==
  LET step == steps[stepIdx]
  IN  /\ generating
      /\ \E i \in 1..Len(resolveTools(step)) : resolveTools(step)[i] = t
      /\ Len(resolveTools(step)) > 1 => ok
      /\ rounds' = Append(rounds, [step |-> stepIdx, round |-> round + 1,
                                   toolChoice |-> toolChoice(step, chartShown),
                                   finish |-> "tool-calls", tool |-> t, ok |-> ok])
      /\ events' = IF t \in DisplayTools /\ ok
                     THEN Append(events, Event("data-chartDataPart", stepIdx, "", FALSE, t))
                     ELSE events
      /\ chartShown' = (chartShown \/ (t \in DisplayTools /\ ok))
      /\ responseMessages' = responseMessages \o
            <<Message("assistant", stepIdx, round + 1),
              toolMessage(stepIdx, round + 1, t, ok)>>
      /\ round' = round + 1
      /\ UNCHANGED <<pc, status, merged, steps, stepIdx, executionMessages,
                     modelMessages>>

\* A round in which the LLM answers with text: only under tool choice "auto".
RoundText ==
  LET step == steps[stepIdx]
  IN  /\ generating
      /\ toolChoice(step, chartShown) = "auto"
      /\ rounds' = Append(rounds, [step |-> stepIdx, round |-> round + 1,
                                   toolChoice |-> "auto", finish |-> "stop",
                                   tool |-> "", ok |-> TRUE])
      /\ responseMessages' = Append(responseMessages,
                                    Message("assistant", stepIdx, round + 1))
      /\ round' = round + 1
      /\ UNCHANGED <<pc, status, events, merged, steps, stepIdx, chartShown,
                     executionMessages, modelMessages>>

\* The LLM call of a round that rejects, as the rounds keep it.
failedRound ==
  [step |-> stepIdx, round |-> round + 1,
   toolChoice |-> toolChoice(steps[stepIdx], chartShown),
   finish |-> "error", tool |-> "", ok |-> FALSE]

\* The rejection caught and the step carried on as if generateText had
\* resolved.
StepFailsSwallowed ==
  /\ generating
  /\ rounds' = Append(rounds, failedRound)
  /\ round' = StepRounds
  /\ UNCHANGED <<pc, status, events, merged, steps, stepIdx, chartShown,
                 responseMessages, executionMessages, modelMessages>>

\* The LLM call of a round rejects: generateText rejects, and nothing around
\* the await catches it.
StepFails ==
  /\ generating
  /\ rounds' = Append(rounds, failedRound)
  /\ Throw
  /\ UNCHANGED <<events, merged, steps, stepIdx, round, chartShown, responseMessages,
                 executionMessages, modelMessages>>

\* result.response.messages.findLast((message) => message.role === "assistant")
lastAssistant(msgs) ==
  LET idx == {i \in 1..Len(msgs) : msgs[i].role = "assistant"}
  IN  IF idx = {} THEN <<>>
      ELSE <<msgs[CHOOSE i \in idx : \A j \in idx : j <= i]>>

\* The step left pending.
completeStepNever == events

\* The step marked completed ahead of what its tools wrote.
completeStepAhead ==
  LET i == CHOOSE i \in 1..Len(events) : events[i] = stepStatus(stepIdx, FALSE)
  IN  SubSeq(events, 1, i) \o <<stepStatus(stepIdx, TRUE)>>
        \o SubSeq(events, i + 1, Len(events))

\* Lines 245-257: generateText resolved: the messages are kept and the step is
\* marked completed.
completeStep ==
  Append(events, stepStatus(stepIdx, TRUE))

\* generateText resolves and the loop goes on with the next step.
StepReturns ==
  /\ pc = "inStep"
  /\ ~generating
  /\ stepIdx < Len(steps)
  /\ executionMessages' = executionMessages \o responseMessages
  /\ modelMessages' = modelMessages \o lastAssistant(responseMessages)
  /\ beginStep(stepIdx + 1, completeStep)
  /\ UNCHANGED <<status, merged, steps, rounds>>

\* Lines 245-274: generateText resolves for the last step: the final synthesis
\* is merged.
LastStepReturns ==
  /\ pc = "inStep"
  /\ ~generating
  /\ stepIdx = Len(steps)
  /\ executionMessages' = executionMessages \o responseMessages
  /\ modelMessages' = modelMessages \o lastAssistant(responseMessages)
  /\ events' = completeStep
  /\ mergeAndReturn("synthesis", NON_REASONING_MODEL, <<>>, 1,
                    modelMessages \o lastAssistant(responseMessages))
  /\ UNCHANGED <<steps, stepIdx, round, chartShown, responseMessages, rounds>>

AgentNext ==
  \/ Start
  \/ DecisionFails
  \/ DecideDirect
  \/ DecidePlan
  \/ \E step \in PlanSteps : PlanElement(step)
  \/ PlanEndsEmpty
  \/ PlanEnds
  \/ \E t \in {"runCode", "queryDataset", "displayBarChart", "displayLineChart"},
          ok \in BOOLEAN :
       RoundToolCall(t, ok)
  \/ RoundText
  \/ StepFails
  \/ StepReturns
  \/ LastStepReturns

\* The query tool on its own: execute is called again and again.
ToolStart ==
  /\ ToolInit
  /\ AgentInit
  /\ probe = NoProbe

ToolSpec ==
  ToolStart /\ [][ToolNext /\ UNCHANGED <<agentVars, streamVars, probeVars, cancelVars, pairVars, validateVars, displayVars>>]_vars

\* One invocation of streamAgent, for one caller and one database.
AgentStart ==
  /\ AgentInit
  /\ ToolInit
  /\ allowedDatasetIds = <<IdA, IdB>>
  /\ \A s \in Sources : store[s] = Few
  /\ probe = NoProbe

AgentSpec ==
  AgentStart /\ [][AgentNext /\ UNCHANGED <<toolVars, streamVars, probeVars, cancelVars, pairVars, validateVars, displayVars>>]_vars

\* Every awaited call settles, and the code after it runs.
AgentFairSpec ==
  AgentSpec /\ WF_vars(AgentNext /\ UNCHANGED <<toolVars, streamVars, probeVars, cancelVars, pairVars, validateVars, displayVars>>)

\* The response takes the next part written (route.ts lines 47-52) and
\* serialises it for the consumer: a plan part is serialised with what the
\* steps array holds at that moment.
Serialise ==
  /\ Len(seen) < Len(events)
  /\ seen' = Append(seen, [event |-> events[Len(seen) + 1],
                           steps |-> IF events[Len(seen) + 1].type = "data-planDataPart"
                                     THEN steps ELSE <<>>])
  /\ UNCHANGED <<toolVars, agentVars, probeVars, cancelVars, pairVars, validateVars, displayVars>>

\* One invocation and the response that streams its parts, at its own pace.
StreamSpec ==
  AgentStart
    /\ [][(AgentNext /\ UNCHANGED <<toolVars, streamVars, probeVars, cancelVars, pairVars, validateVars, displayVars>>) \/ Serialise]_vars

\* The tool lists a step may declare, whatever the names in them: registered
\* tools, a name no tool has, a name every object inherits.
MaxDeclared == 3

DeclaredNames == {"queryDataset", "displayBarChart", "searchWeb", "toString"}

DeclaredLists == UNION {[1..n -> DeclaredNames] : n \in 0..MaxDeclared}

ResolveStart ==
  /\ AgentInit
  /\ ToolInit
  /\ allowedDatasetIds = <<IdA, IdB>>
  /\ \A s \in Sources : store[s] = Few
  /\ probe \in {[declared |-> l, resolved |-> FALSE, tools |-> <<>>] : l \in DeclaredLists}

\* Lines 193-202 applied to the declared tools.
Resolve ==
  /\ ~probe.resolved
  /\ probe' = [probe EXCEPT !.resolved = TRUE,
                            !.tools = resolveTools([tools |-> probe.declared])]
  /\ UNCHANGED <<toolVars, agentVars, streamVars, cancelVars, pairVars, validateVars, displayVars>>

ResolveSpec == ResolveStart /\ [][Resolve]_vars

\* The client disconnects while streamAgent runs.  POST (route.ts lines 38-53)
\* reads the request's body and nothing else of it: no abort signal reaches
\* streamAgent, generateObject, streamObject, generateText or a tool, so the
\* disconnection changes nothing streamAgent reads.  The response exists once
\* streamAgent has reached its first await.
Cancel ==
  /\ status = "running"
  /\ pc # "init"
  /\ ~cancelled
  /\ cancelled' = TRUE
  /\ UNCHANGED <<toolVars, agentVars, streamVars, probeVars, pairVars, validateVars, displayVars>>

\* One invocation whose client may disconnect at any moment.
CancelSpec ==
  AgentStart
    /\ [][(AgentNext /\ UNCHANGED <<toolVars, streamVars, probeVars, cancelVars, pairVars, validateVars, displayVars>>)
            \/ Cancel]_vars

(***************************************************************************)
(* Two calls of streamAgent running together.  Each call makes its own     *)
(* allowedDatasetIds, its own query tool over it and its display tools     *)
(* over its own writer (lines 50-64); the database is the one they share.  *)
(***************************************************************************)
MaxWrites == 2

\* The datasets selected in a request, by their ids.
Selections == {<<IdA>>, <<IdB>>}

\* Queries the LLM of an invocation may hand to its query tool.
PairQueries ==
  {q \in Queries :
     /\ q.lead = <<>> /\ q.head = "SELECT" /\ q.table = "dataset_rows" /\ q.tail = NoTail
     /\ q.where \in {[kind |-> "none", ids |-> <<>>],
                     [kind |-> "eq", ids |-> <<IdA>>],
                     [kind |-> "eq", ids |-> <<IdB>>],
                     [kind |-> "in", ids |-> <<IdA, IdB>>]}}

\* Lines 50-51 of streamAgent and createQueryDatasetTool (tools.ts lines
\* 190-191): allowedDatasetIds is the ids of selectedDatasets, made once, and
\* the tool closes over it.
Invoke(i, selectedDatasets) ==
  /\ ~invocations[i].invoked
  /\ invocations' = [invocations EXCEPT ![i] =
        [invoked |-> TRUE, selected |-> selectedDatasets,
         allowedDatasetIds |-> selectedDatasets, writer |-> <<>>,
         toolPc |-> "idle", call |-> NoCall]]
  /\ UNCHANGED <<toolVars, agentVars, streamVars, probeVars, cancelVars, validateVars, displayVars>>

\* writer.write of invocation i (by streamAgent or by one of its display
\* tools): the part goes to the writer that invocation was called with.
Write(i) ==
  /\ invocations[i].invoked
  /\ Len(invocations[i].writer) < MaxWrites
  /\ invocations' = [invocations EXCEPT ![i].writer =
        Append(@, [by |-> i, n |-> Len(@) + 1])]
  /\ UNCHANGED <<toolVars, agentVars, streamVars, probeVars, cancelVars, validateVars, displayVars>>

\* execute of the query tool of invocation i, up to its first await or its
\* return (tools.ts lines 238-255), with the list that tool closes over.
InvocationExecuteStart(i, q) ==
  LET sqlQuery   == Render(q)
      validation == validateSQLQuery(sqlQuery, invocations[i].allowedDatasetIds)
  IN  /\ invocations[i].invoked
      /\ invocations[i].toolPc = "idle"
      /\ invocations' = [invocations EXCEPT
            ![i].toolPc = IF validation.valid THEN "awaitDb" ELSE "returned",
            ![i].call = IF validation.valid
                          THEN [q |-> q, sqlQuery |-> sqlQuery,
                                dbCalls |-> <<withSafetyLimit(sqlQuery)>>]
                          ELSE [q |-> q, sqlQuery |-> sqlQuery, dbCalls |-> <<>>,
                                fault |-> "none",
                                outcome |-> rejectionResult(validation)]]
      /\ UNCHANGED <<toolVars, agentVars, streamVars, probeVars, cancelVars, validateVars, displayVars>>

\* db.execute of invocation i settles and execute returns (lines 255-262).
InvocationDbSettle(i) ==
  LET c      == invocations[i].call
      result == dbExecute(c.q, c.dbCalls[1], store, "none")
  IN  /\ invocations[i].toolPc = "awaitDb"
      /\ invocations' = [invocations EXCEPT
            ![i].toolPc = "returned",
            ![i].call = [q |-> c.q, sqlQuery |-> c.sqlQuery, dbCalls |-> c.dbCalls,
                         fault |-> "none",
                         outcome |-> IF result.threw THEN executeCatch(result.thrown)
                                     ELSE successResult(result.value)]]
      /\ UNCHANGED <<toolVars, agentVars, streamVars, probeVars, cancelVars, validateVars, displayVars>>

InvocationToolReady(i) ==
  /\ invocations[i].toolPc = "returned"
  /\ invocations' = [invocations EXCEPT ![i].toolPc = "idle", ![i].call = NoCall]
  /\ UNCHANGED <<toolVars, agentVars, streamVars, probeVars, cancelVars, validateVars, displayVars>>

PairNext ==
  \E i \in Invocations :
    \/ \E selectedDatasets \in Selections : Invoke(i, selectedDatasets)
    \/ Write(i)
    \/ \E q \in PairQueries : InvocationExecuteStart(i, q)
    \/ InvocationDbSettle(i)
    \/ InvocationToolReady(i)

PairStart == AgentStart

PairSpec == PairStart /\ [][PairNext]_vars

(***************************************************************************)
(* validateSQLQuery called again and again in one process, on queries and  *)
(* allowed lists in any order.                                             *)
(***************************************************************************)
MaxValidations == 3

\* Queries with different verdicts: accepted under a1, no filter, no SELECT.
ValidatedQueries ==
  {q \in Queries :
     /\ q.lead = <<>> /\ q.table = "dataset_rows" /\ q.tail = NoTail
     /\ \/ q.head = "SELECT" /\ q.where \in {[kind |-> "eq", ids |-> <<IdA>>],
                                             [kind |-> "none", ids |-> <<>>]}
        \/ q.head = "DROP" /\ q.where = [kind |-> "none", ids |-> <<>>]}

ValidatedScopes == {<<IdA>>, <<IdB>>}

\* One call validateSQLQuery(query, allowedDatasetIds), lines 114-188: it
\* reads its two arguments, awaits nothing and calls nothing but string and
\* regex methods.
Validate(q, allowed) ==
  /\ Len(validations) < MaxValidations
  /\ validations' = Append(validations,
        [q |-> q, sqlQuery |-> Render(q), allowedDatasetIds |-> allowed,
         result |-> validateSQLQuery(Render(q), allowed)])
  /\ UNCHANGED <<toolVars, agentVars, streamVars, probeVars, cancelVars, pairVars,
                 displayVars>>

ValidateNext == \E q \in ValidatedQueries, allowed \in ValidatedScopes : Validate(q, allowed)

ValidateStart == AgentStart

ValidateSpec == ValidateStart /\ [][ValidateNext]_vars

(***************************************************************************)
(* One call of a display tool's execute (tools.ts lines 307-322, 359-374,  *)
(* 425-440) on an input its schema admits (part_009 lines 31-48).          *)
(***************************************************************************)
ChartTypes == {"bar", "line", "pie"}

\* The "as const" type each display tool writes.
ChartType(tool) ==
  CASE tool = "displayBarChart"  -> "bar"
    [] tool = "displayLineChart" -> "line"
    [] tool = "displayPieChart"  -> "pie"

SeriesKeys == {"desktop", "mobile"}

\* chartConfigSchema: metadata and, for any other key, a label.
ChartConfigs ==
  UNION {[{"metadata"} \cup keys ->
            [type : ChartTypes, title : {"Visitors"}, description : {"Last 6 months"},
             label : {""}]
            \cup [type : {""}, title : {""}, description : {""}, label : {"Desktop", "Mobile"}]]
         : keys \in SUBSET SeriesKeys}

\* Configs whose metadata is a metadata and whose other entries are labels.
WellFormedConfigs ==
  {c \in ChartConfigs :
     /\ c["metadata"].label = ""
     /\ \A k \in DOMAIN c \ {"metadata"} : c[k].type = ""}

ChartRows == {<<>>, <<"row">>, <<"row", "row">>}

ChartInputs == [data : ChartRows, config : WellFormedConfigs]

\* const { metadata, ...restConfig } = config
restConfig(config) == [k \in DOMAIN config \ {"metadata"} |-> config[k]]

\* { ...metadata }: the metadata as the input carried it.
metadataKept(tool, metadata) == metadata

\* { ...metadata, type: "bar" as const }
metadataTyped(tool, metadata) == [metadata EXCEPT !.type = ChartType(tool)]

\* { ...restConfig, metadata: {...} }
updatedConfig(tool, config) ==
  [k \in DOMAIN config |->
     IF k = "metadata" THEN metadataTyped(tool, config["metadata"])
     ELSE restConfig(config)[k]]

DisplayStart ==
  /\ AgentInit
  /\ ToolInit
  /\ allowedDatasetIds = <<IdA, IdB>>
  /\ \A s \in Sources : store[s] = Few
  /\ probe = NoProbe

\* The LLM's tool call arrives: tool and input.
DisplayCall(tool, input) ==
  /\ display = NoDisplay
  /\ display' = [tool |-> tool, called |-> TRUE, input |-> input, written |-> <<>>,
                 returned |-> FALSE, result |-> ""]
  /\ UNCHANGED <<toolVars, agentVars, streamVars, probeVars, cancelVars, pairVars,
                 validateVars>>

\* execute: the part is written to the writer and the text is returned.
DisplayExecute ==
  /\ display.called
  /\ ~display.returned
  /\ display' = [display EXCEPT
        !.written = Append(@, [type |-> "data-chartDataPart",
                               data |-> [data |-> display.input.data,
                                         config |-> updatedConfig(display.tool,
                                                                  display.input.config)]]),
        !.returned = TRUE,
        !.result = ChartDisplayed]
  /\ UNCHANGED <<toolVars, agentVars, streamVars, probeVars, cancelVars, pairVars,
                 validateVars>>

DisplayNext ==
  \/ \E tool \in DisplayTools, input \in ChartInputs : DisplayCall(tool, input)
  \/ DisplayExecute

DisplaySpec == DisplayStart /\ [][DisplayNext]_vars

(***************************************************************************)
(* Properties of the query tool                                            *)
(***************************************************************************)
Started == toolPc # "idle"

Finished == toolPc = "returned"

Rejected == Finished /\ ~call.outcome.threw /\ call.outcome.value.success = FALSE

Succeeded == Finished /\ ~call.outcome.threw /\ call.outcome.value.success = TRUE

\* The query filters on dataset_id = '<id>' or dataset_id IN ('<id>', ...).
HasScopeFilter(q) == q.where.kind \in {"eq", "in"}

\* C1: a query whose text holds no dataset_id = '<id>' and no
\* dataset_id IN ('<id>', ...) filter is rejected, whatever the allowed list,
\* and nothing is handed to db.execute for it.
C1_NoScopeFilterNeverExecutes ==
  (Started /\ ~HasScopeFilter(call.q)) =>
    /\ call.dbCalls = <<>>
    /\ Rejected

\* The store with every row outside the allowed datasets (rows of other
\* datasets, rows of other tables) removed.
Erase(st, allowed) ==
  [s \in Sources |->
     IF \E k \in 1..Len(allowed) : SourceOf(allowed[k]) = s THEN st[s] ELSE 0]

\* C2: what an executed query returns depends only on the dataset_rows rows of
\* the allowed datasets: it returns the same on the store with all other rows
\* removed (so on any two stores that differ only in such rows).
C2_ReadsOnlyAllowedRows ==
  Succeeded =>
    call.outcome.value.rows.count =
      PgRows(call.q, call.dbCalls[1], Erase(store, allowedDatasetIds))

\* The query holds one of the eleven mutating words as a whole word.
HasMutatingWord(q) ==
  \/ q.head \in {"DROP", "DeLeTe"}
  \/ q.tail.kind \in {"drop_users", "word"}

\* C3: a query that holds a mutating word as a whole word, in any letter case
\* and at any position, is rejected and never handed to db.execute.
C3_MutatingWordRejected ==
  (Started /\ HasMutatingWord(call.q)) =>
    /\ call.dbCalls = <<>>
    /\ Rejected

\* A mutating word in mixed case after a valid SELECT prefix with an authorized
\* filter was rejected.
C3_Witness ==
  /\ Rejected
  /\ call.q.head = "SELECT"
  /\ call.q.where = [kind |-> "eq", ids |-> <<IdA>>]
  /\ arrayIncludes(allowedDatasetIds, IdA)
  /\ call.q.tail.kind = "word" /\ ~call.q.tail.upper /\ call.q.tail.k = 9

\* The query passes the SELECT, keyword and table checks and its only scope id
\* is id.
OnlyScopeId(q, id) ==
  /\ q.head \in {"SELECT", "select", "SeLeCt", "updated_at"}
  /\ ~HasMutatingWord(q)
  /\ q.table = "dataset_rows"
  /\ q.where = [kind |-> "eq", ids |-> <<id>>]

\* The rejection names id and lists the allowed ids in the caller's order.
NamesIdAndList(error, id, allowed) ==
  /\ \E k \in 1..Len(error) : error[k].text = id
  /\ \E k \in 1..Len(error) : error[k].text = join(allowed, <<",", " ">>)

IsHexId(id) == Len(id) > 0 /\ \A k \in 1..Len(id) : id[k] \in IdChars

\* C4 as stated: a query whose only scope id is outside the allowed list is
\* rejected with a message that names that id and lists the allowed ids in order.
C4_UnauthorizedIdNamed ==
  \A id \in {IdA, IdB, IdC, IdG} :
    (Finished /\ OnlyScopeId(call.q, id) /\ ~arrayIncludes(allowedDatasetIds, id)) =>
      /\ Rejected
      /\ NamesIdAndList(call.outcome.value.error, id, allowedDatasetIds)

\* C4 amended: the same for an id made of hexadecimal digits and dashes (as
\* every uuid is).
C4_UnauthorizedHexIdNamed ==
  \A id \in {IdA, IdB, IdC, IdG} :
    (Finished /\ OnlyScopeId(call.q, id) /\ ~arrayIncludes(allowedDatasetIds, id)
       /\ IsHexId(id)) =>
      /\ Rejected
      /\ NamesIdAndList(call.outcome.value.error, id, allowedDatasetIds)

\* With the allowed list b2, a1 a query on c3 was rejected.
C4_Witness ==
  /\ Rejected
  /\ OnlyScopeId(call.q, IdC)
  /\ allowedDatasetIds = <<IdB, IdA>>

HasLimitClause(q) == q.tail.kind \in {"limit_50", "limit_5000"}

\* C5: for an accepted query, the text handed to db.execute is the original
\* text followed by " LIMIT 1000" if the query has no LIMIT clause, and exactly
\* the original text if it has one.
C5_LimitAppendedUnlessPresent ==
  (Started /\ call.dbCalls # <<>>) =>
    call.dbCalls = <<IF HasLimitClause(call.q) THEN call.sqlQuery
                     ELSE call.sqlQuery \o <<" ","L","I","M","I","T"," ","1","0","0","0">> >>

\* C6: no executed query returns more than 1000 rows.
C6_AtMostRowCap ==
  Succeeded => call.outcome.value.rowCount <= 1000

\* C7: execute never throws.  A rejected query, an Error and a non-Error from
\* db.execute all give {success: false, error, rows: null}, the error being
\* the Error's message or "Unknown error"; a success gives {success: true,
\* rows, rowCount, message} with rowCount the number of rows.
C7_ExecuteNeverThrows ==
  Finished =>
    /\ ~call.outcome.threw
    /\ LET v == call.outcome.value
       IN  /\ call.dbCalls = <<>> =>
                 /\ DOMAIN v = {"success", "error", "rows"}
                 /\ v.success = FALSE /\ v.rows = Null /\ Len(v.error) > 0
           /\ (call.dbCalls # <<>> /\ call.fault = "Error") =>
                 v = [success |-> FALSE, error |-> <<Lit("Database connection failed")>>,
                      rows |-> Null]
           /\ (call.dbCalls # <<>> /\ call.fault = "nonError") =>
                 v = [success |-> FALSE, error |-> <<Lit("Unknown error")>>, rows |-> Null]
           /\ (call.dbCalls # <<>> /\ call.fault = "none" /\ PgFails(call.q)) =>
                 /\ v.success = FALSE /\ v.rows = Null /\ Len(v.error) = 1
           /\ (call.dbCalls # <<>> /\ call.fault = "none" /\ ~PgFails(call.q)) =>
                 /\ DOMAIN v = {"success", "rowCount", "rows", "message"}
                 /\ v.success = TRUE
                 /\ ~v.rows.null
                 /\ v.rowCount = SumFrom(v.rows.count, 1)
                 /\ v.message = <<Lit(MsgSuccessPrefix), Num(v.rowCount), Lit(MsgSuccessSuffix)>>

\* db.execute rejected with a value that is no Error, and execute returned.
C7_Witness ==
  /\ Finished
  /\ call.dbCalls # <<>>
  /\ call.fault = "nonError"


(***************************************************************************)
(* Properties of streamAgent                                               *)
(***************************************************************************)
\* The positions in events of the step-status writes of the k-th execution.
StatusAt(k, completed) ==
  {i \in 1..Len(events) :
     /\ events[i].type = "data-completedStepDataPart"
     /\ events[i].id = k
     /\ events[i].completed = completed}

StepStarted(k) == StatusAt(k, FALSE) # {}

StepCompleted(k) == StatusAt(k, TRUE) # {}

\* The events written for the k-th execution: its status and its charts.
EventsOfStep(k) ==
  {i \in 1..Len(events) :
     /\ events[i].type \in {"data-completedStepDataPart", "data-chartDataPart"}
     /\ events[i].id = k}

SynthesisMade == \E i \in 1..Len(merged) : merged[i].kind = "synthesis"

C8_FalseBeforeTrue ==
  \A k \in 1..MaxSteps :
    \A i \in StatusAt(k, TRUE) : \E j \in StatusAt(k, FALSE) : j < i

\* C8: for every plan step, completed:false is written strictly before
\* completed:true; and when no LLM call fails, every step that received
\* completed:false eventually receives completed:true.
C8_StepStatusOrderAndCompletion ==
  /\ []C8_FalseBeforeTrue
  /\ \A k \in 1..MaxSteps :
       StepStarted(k) ~> (StepCompleted(k) \/ status = "threw")

C8_Witness ==
  /\ status = "returned"
  /\ Len(steps) = MaxSteps
  /\ \A k \in 1..MaxSteps : StepStarted(k) /\ StepCompleted(k)

\* Planning was required: the plan part was written.
PlanningRequired ==
  \E i \in 1..Len(events) : events[i].type = "data-planDataPart"

EmptyPlanEnded == PlanningRequired /\ Len(steps) = 0 /\ pc = "done"

FiveTools ==
  <<"runCode", "queryDataset", "displayBarChart", "displayLineChart", "displayPieChart">>

\* C9: when planning is required and the plan has zero steps, exactly one
\* response stream is merged, the direct response with all five tools; no
\* step is executed, no step-status event is written, no synthesis is made.
C9_EmptyPlanFallsBack ==
  EmptyPlanEnded =>
    /\ status = "returned"
    /\ Len(merged) = 1
    /\ merged[1].kind = "emptyPlan"
    /\ merged[1].tools = FiveTools
    /\ rounds = <<>>
    /\ stepIdx = 0
    /\ \A i \in 1..Len(events) : events[i].type # "data-completedStepDataPart"
    /\ ~SynthesisMade

C9_Witness == EmptyPlanEnded /\ Len(merged) = 1

\* The LLM call of step k failed.
StepCallFailed(k) ==
  \E i \in 1..Len(rounds) : rounds[i].step = k /\ rounds[i].finish = "error"

\* C10: if the LLM call of step k fails, the error leaves streamAgent, step k
\* gets no completed:true, no event is written for a later step and the
\* synthesis is never made.
C10_StepFailureIsFatal ==
  \A k \in 1..MaxSteps :
    StepCallFailed(k) =>
      /\ status = "threw"
      /\ ~StepCompleted(k)
      /\ \A later \in (k + 1)..MaxSteps : EventsOfStep(later) = {}
      /\ ~SynthesisMade

C10_Witness ==
  /\ StepCallFailed(1)
  /\ Len(steps) = MaxSteps
  /\ StepStarted(1)
  /\ status = "threw"


\* The rounds in which a tool called by the LLM failed.
FailedToolRounds ==
  {i \in 1..Len(rounds) : rounds[i].finish = "tool-calls" /\ ~rounds[i].ok}

\* The messages of the steps so far, the current one included.
StepMessages == executionMessages \o (IF status = "returned" THEN <<>> ELSE responseMessages)

SomeLLMCallFailed == \E k \in 1..MaxSteps : StepCallFailed(k)

PlanPartsSeen == SelectSeq(seen, LAMBDA p : p.event.type = "data-planDataPart")

\* C12: every plan-update holds the full list of the steps so far: the one
\* written after the i-th step holds exactly the first i steps, all carry the
\* same plan id, and as the consumer sees them each list extends the
\* previous one by one step.
C12_PlanUpdatesGrowByOne ==
  \A j \in 1..Len(PlanPartsSeen) :
    /\ PlanPartsSeen[j].event.id = PlanPartsSeen[1].event.id
    /\ PlanPartsSeen[j].steps = SubSeq(steps, 1, PlanPartsSeen[j].event.data)
    /\ j > 1 => PlanPartsSeen[j].steps =
                   PlanPartsSeen[j - 1].steps \o <<steps[PlanPartsSeen[j].event.data]>>


\* The planning-decision call resolved.
DecisionMade ==
  /\ pc \notin {"init", "awaitDecision"}
  /\ status = "threw" => SomeLLMCallFailed

ReasoningTypes == {"reasoning-start", "reasoning-delta", "reasoning-end"}

\* C13: once the planning decision has arrived, the stream starts with one
\* reasoning span: reasoning-start, a reasoning-delta with the decision's
\* reasoning, reasoning-end, the three under one id; no other reasoning part
\* is written, so the span stands before every other part and every merged
\* text.
C13_OneReasoningSpanFirst ==
  DecisionMade =>
    /\ Len(events) >= 3
    /\ events[1].type = "reasoning-start"
    /\ events[2].type = "reasoning-delta"
    /\ events[3].type = "reasoning-end"
    /\ events[2].id = events[1].id /\ events[3].id = events[1].id
    /\ \E d \in Decisions :
         /\ events[2].data = d.reasoning
         /\ d.requiresPlanning = PlanningRequired
    /\ \A i \in 4..Len(events) : events[i].type \notin ReasoningTypes

\* A planned invocation that went through its steps and returned.
C13_Witness ==
  /\ DecisionMade
  /\ status = "returned"
  /\ SynthesisMade
  /\ \E i \in 1..Len(events) : events[i].type = "data-chartDataPart"


\* The conversation streamAgent was called with.
Conversation == <<Message("user", 0, 0)>>

\* C14: the final synthesis is called with the conversation followed by every
\* message made while the steps were executed, in step order.
C14_SynthesisGetsAllStepMessages ==
  \A i \in 1..Len(merged) :
    merged[i].kind = "synthesis" =>
      merged[i].messages = Conversation \o executionMessages


\* The steps announced and not yet marked completed.
StepsInProgress == {k \in 1..MaxSteps : StepStarted(k) /\ ~StepCompleted(k)}

\* C15: the steps run in plan order without overlap: at most one step is in
\* progress, the k-th step executed is the k-th step of the plan, and
\* completed:false of step k + 1 is written only after completed:true of
\* step k.
C15_StepsInOrderNoOverlap ==
  /\ Cardinality(StepsInProgress) <= 1
  /\ \A k \in 1..MaxSteps :
       /\ \A i \in StatusAt(k, FALSE) :
            /\ k <= Len(steps)
            /\ events[i].step = steps[k].id
       /\ \A i \in StatusAt(k + 1, FALSE) : \E j \in StatusAt(k, TRUE) : j < i

\* The second step is in progress, after a round of its own.
C15_Witness ==
  /\ StepsInProgress = {2}
  /\ StepCompleted(1)
  /\ round > 0


\* The place of a part in the order of production: the reasoning span, the
\* plan, the steps.
Phase(e) ==
  IF e.type \in ReasoningTypes THEN 1
  ELSE IF e.type = "data-planDataPart" THEN 2
  ELSE 3

ChartsOfStep(k) ==
  {i \in 1..Len(events) : events[i].type = "data-chartDataPart" /\ events[i].id = k}

\* C16: the parts are written in the order of production: the reasoning
\* span, the plan-updates, then step by step completed:false, the charts of
\* the step's tools and completed:true; the synthesis is merged after all of
\* them.
C16_ProductionOrder ==
  /\ \A i, j \in 1..Len(events) : i < j => Phase(events[i]) <= Phase(events[j])
  /\ \A k \in 1..MaxSteps :
       /\ \A i \in ChartsOfStep(k) :
            /\ \E j \in StatusAt(k, FALSE) : j < i
            /\ \A j \in StatusAt(k, TRUE) : i < j
       /\ \A i \in EventsOfStep(k), j \in EventsOfStep(k + 1) : i < j
  /\ SynthesisMade =>
       /\ pc = "done"
       /\ \A k \in 1..Len(steps) : StepCompleted(k)
       /\ events[Len(events)] = stepStatus(Len(steps), TRUE)

\* Both steps of a plan wrote a chart, and the synthesis was merged.
C16_Witness ==
  /\ SynthesisMade
  /\ ChartsOfStep(1) # {}
  /\ ChartsOfStep(2) # {}


Range(seq) == {seq[i] : i \in 1..Len(seq)}

SingleDisplayStep(step) == Len(step.tools) = 1 /\ step.tools[1] \in DisplayTools

\* A display tool returned ChartDisplayed in a round of the same step made
\* before round i of rounds.
ChartReturnedBefore(i) ==
  \E j \in 1..(i - 1) :
    /\ rounds[j].step = rounds[i].step
    /\ rounds[j].finish = "tool-calls"
    /\ rounds[j].tool \in DisplayTools
    /\ rounds[j].ok

\* C18: on a step whose tools are exactly one display-chart tool the first
\* round is run with tool choice required, and every round after the first,
\* like every round after a display tool returned ChartDisplayed, with tool
\* choice auto; on every other step every round is run with tool choice auto.
C18_ToolChoicePerRound ==
  \A i \in 1..Len(rounds) :
    IF SingleDisplayStep(steps[rounds[i].step])
      THEN /\ rounds[i].round = 1 => rounds[i].toolChoice = "required"
           /\ rounds[i].round > 1 \/ ChartReturnedBefore(i) => rounds[i].toolChoice = "auto"
      ELSE rounds[i].toolChoice = "auto"


\* C19: after the cancellation of an invocation streamAgent writes no further
\* event, makes no further LLM round or tool call and merges no further
\* stream.
C19_NothingAfterCancel ==
  [][cancelled => events' = events /\ rounds' = rounds /\ merged' = merged]_vars


\* Invocation i's query tool has accepted the query of its current call.
Accepted(i) == invocations[i].call # NoCall /\ invocations[i].call.dbCalls # <<>>

\* C20: with two invocations running together, the query tool of each accepts
\* only queries whose dataset ids are all in that invocation's own scope, the
\* allowed list of a tool is the one it was created with, and every part in
\* an invocation's writer was written by that invocation.
C20_InvocationsIsolated ==
  \A i \in Invocations :
    /\ Accepted(i) =>
         Range(invocations[i].call.q.where.ids) \subseteq Range(invocations[i].selected)
    /\ invocations[i].allowedDatasetIds = invocations[i].selected
    /\ \A n \in 1..Len(invocations[i].writer) : invocations[i].writer[n].by = i


(***************************************************************************)
(* Properties of validateSQLQuery                                          *)
(***************************************************************************)
SamePair(v, w) == v.sqlQuery = w.sqlQuery /\ v.allowedDatasetIds = w.allowedDatasetIds

SelectHeads == {"SELECT", "select", "SeLeCt"}

Casings ==
  {<<"S","E","L","E","C","T">>, <<"s","e","l","e","c","t">>, <<"s","E","l","E","c","T">>}

Paddings == {<<>>, <<"\n", "\t">>}

\* The text of q with its leading keyword written as keyword, between white
\* space.
Rewritten(q, keyword, padding) ==
  LET text == Render(q)
  IN  padding \o keyword \o SubSeq(text, Len(q.lead) + 7, Len(text)) \o padding

\* The tool accepted the query of its current call.
CallAccepted == Started /\ call.dbCalls # <<>>

\* C22: the verdict on a query that starts with SELECT does not change with
\* the letter case of that keyword nor with white space around the query, so
\* a query that passes the other checks is accepted in every such writing.
C22_LeadingKeywordAnyCase ==
  (Started /\ call.q.head \in SelectHeads) =>
    \A keyword \in Casings, padding \in Paddings :
      LET other == validateSQLQuery(Rewritten(call.q, keyword, padding),
                                    allowedDatasetIds)
      IN  /\ other.valid = CallAccepted
          /\ ~CallAccepted /\ Finished => other.error = call.outcome.value.error

\* A query written SeLeCt after white space was accepted.
C22_Witness ==
  /\ CallAccepted
  /\ call.q.head = "SeLeCt"
  /\ Succeeded


\* The query is DROP TABLE rows or DROP TABLE dataset_rows, and nothing else.
IsDropTable(q) ==
  /\ q.lead = <<>> /\ q.head = "DROP" /\ q.table \in {"rows", "dataset_rows"}
  /\ q.where = [kind |-> "none", ids |-> <<>>] /\ q.tail = NoTail

\* C23 as stated: DROP TABLE rows and DROP TABLE dataset_rows are rejected
\* with the forbidden-keyword reason naming DROP, whatever the allowed list.
C23_DropTableForbiddenKeyword ==
  (Finished /\ IsDropTable(call.q)) =>
    /\ Rejected
    /\ call.outcome.value.error = forbiddenKeywordError(<<"d","r","o","p">>)

\* C23 amended: they are rejected, whatever the allowed list, with the reason
\* of the first check, that only SELECT queries are allowed, and nothing is
\* handed to db.execute.
C23_DropTableOnlySelect ==
  (Finished /\ IsDropTable(call.q)) =>
    /\ Rejected
    /\ call.outcome.value.error = <<Lit(MsgOnlySelect)>>
    /\ call.dbCalls = <<>>

\* DROP TABLE rows was rejected by a tool with two allowed ids.
C23_Witness ==
  /\ Rejected
  /\ IsDropTable(call.q)
  /\ call.q.table = "rows"
  /\ Len(allowedDatasetIds) = 2


\* The query starts with SELECT, holds no mutating word and names dataset_rows.
PassesEarlierChecks(q) ==
  /\ q.head \in {"SELECT", "select", "SeLeCt", "updated_at"}
  /\ ~HasMutatingWord(q)
  /\ q.table = "dataset_rows"

\* The query filters on a dataset id made of hexadecimal digits and dashes.
FiltersOnWellFormedId(q) == HasScopeFilter(q) /\ IsHexId(q.where.ids[1])

\* The call was rejected with the access-denied reason naming id.
AccessDenied(id) ==
  /\ Rejected
  /\ call.outcome.value.error = accessDeniedError(id, allowedDatasetIds)

\* With an empty allowed list every call is rejected and nothing is handed to
\* db.execute.
EmptyScopeRejectsAll ==
  (allowedDatasetIds = <<>> /\ Started) => Rejected /\ call.dbCalls = <<>>

\* C24 as stated: a tool with an empty allowed list rejects every query and
\* never calls db.execute, and rejects every query that filters on a
\* well-formed dataset id with the access-denied reason.
C24_EmptyScopeAccessDenied ==
  /\ EmptyScopeRejectsAll
  /\ (allowedDatasetIds = <<>> /\ Started /\ FiltersOnWellFormedId(call.q)) =>
       AccessDenied(call.q.where.ids[1])

\* C24 amended: the access-denied reason is given to the queries with such a
\* filter that pass the SELECT, keyword and table checks.
C24_EmptyScopeAccessDeniedAfterChecks ==
  /\ EmptyScopeRejectsAll
  /\ (allowedDatasetIds = <<>> /\ Started /\ FiltersOnWellFormedId(call.q)
        /\ PassesEarlierChecks(call.q)) =>
       AccessDenied(call.q.where.ids[1])

\* A tool with an empty allowed list refused a SELECT on dataset a1.
C24_Witness ==
  /\ allowedDatasetIds = <<>>
  /\ call # NoCall
  /\ call.q.head = "SELECT"
  /\ call.q.where = [kind |-> "eq", ids |-> <<IdA>>]
  /\ AccessDenied(IdA)


\* C25: a query with a filter dataset_id = '<id>' or dataset_id IN ('<id>',
\* ...) is rejected, and never handed to db.execute, as soon as one id of the
\* filter, the second or a later one of an IN list included, is outside the
\* allowed list.
C25_EveryFilterIdChecked ==
  (Started /\ HasScopeFilter(call.q)
     /\ \E k \in 1..Len(call.q.where.ids) :
          ~arrayIncludes(allowedDatasetIds, call.q.where.ids[k])) =>
    /\ Rejected
    /\ call.dbCalls = <<>>


\* What each check refuses, told from the parts of the query.
FailsSelect(q) == q.head \in {"DROP", "DeLeTe"}

FailsKeyword(q) == HasMutatingWord(q)

FailsTable(q) == q.table # "dataset_rows"

\* No text dataset_id = / IN followed by a quoted id of hexadecimal digits.
FailsFilter(q) == q.where.kind \in {"none", "other"} \/ ~IsHexId(q.where.ids[1])

\* The id the pattern captures (the one that follows dataset_id) is not allowed.
FailsAuthorization(q, allowed) ==
  ~FailsFilter(q) /\ ~arrayIncludes(allowed, q.where.ids[1])

\* The reason of the earliest failing check, by the fixed text it starts
\* with; "" when no check fails.
EarliestFailure(q, allowed) ==
  IF FailsSelect(q) THEN MsgOnlySelect
  ELSE IF FailsKeyword(q) THEN MsgForbiddenPrefix
  ELSE IF FailsTable(q) THEN MsgMustReference
  ELSE IF FailsFilter(q) THEN MsgMustFilter
  ELSE IF FailsAuthorization(q, allowed) THEN MsgAccessDeniedPrefix
  ELSE ""

\* C26: the checks are made in the order not SELECT, forbidden keyword,
\* dataset_rows not referenced, no dataset_id filter, unauthorized id; a query
\* is rejected with the reason of the earliest check it fails and accepted
\* only if it fails none.
C26_FirstFailureWins ==
  Started =>
    LET expected == EarliestFailure(call.q, allowedDatasetIds)
    IN  IF expected = ""
          THEN CallAccepted
          ELSE /\ call.dbCalls = <<>>
               /\ Rejected
               /\ call.outcome.value.error[1].fixed = expected

\* A SELECT without a filter, followed by a DROP statement, was rejected for
\* the keyword.
C26_Witness ==
  /\ Rejected
  /\ call.q.head = "SELECT"
  /\ call.q.where.kind = "none"
  /\ call.q.tail.kind = "drop_users"
  /\ call.outcome.value.error[1].fixed = MsgForbiddenPrefix


\* The generateText calls made for step k: one per first round.
ExecutionsOfStep(k) == {i \in 1..Len(rounds) : rounds[i].step = k /\ rounds[i].round = 1}

\* No step makes more than StepRounds rounds, a direct or empty-plan response
\* is limited to DirectRounds rounds, and a planned invocation that returned
\* executed each step of its plan once.
RoundsBounded ==
  /\ \A i \in 1..Len(rounds) : rounds[i].round <= StepRounds
  /\ round <= StepRounds
  /\ \A i \in 1..Len(merged) :
       merged[i].kind \in {"direct", "emptyPlan"} => merged[i].maxRounds = DirectRounds
  /\ (status = "returned" /\ Len(steps) > 0) =>
       \A k \in 1..Len(steps) :
         /\ Cardinality(ExecutionsOfStep(k)) = 1
         /\ Cardinality(StatusAt(k, FALSE)) = 1

\* C27: the LLM rounds are bounded, 3 for a plan step and 5 for a direct or
\* empty-plan response, and every invocation with a finite plan comes to its
\* end, each plan step having been executed exactly once.
C27_BoundedRoundsTerminates == []RoundsBounded /\ <>(pc = "done")

\* An invocation returned after a step that used all its rounds.
C27_Witness ==
  /\ status = "returned"
  /\ Len(steps) = MaxSteps
  /\ \E i \in 1..Len(rounds) : rounds[i].round = StepRounds


(***************************************************************************)
(* Properties of the display tools                                         *)
(***************************************************************************)
\* C28: a call of a display tool writes exactly one chart event, whose
\* config.metadata.type is the type of the tool called, whatever type the
\* input carried, whose data and other config entries (title and description
\* included) are those of the input, and returns ChartDisplayed.
C28_OneChartOfToolType ==
  (display.called /\ display.returned) =>
    /\ Len(display.written) = 1
    /\ display.result = ChartDisplayed
    /\ LET part   == display.written[1]
           given  == display.input.config
           config == part.data.config
       IN  /\ part.type = "data-chartDataPart"
           /\ part.data.data = display.input.data
           /\ DOMAIN config = DOMAIN given
           /\ \A k \in DOMAIN given \ {"metadata"} : config[k] = given[k]
           /\ config["metadata"].type = ChartType(display.tool)
           /\ config["metadata"].title = given["metadata"].title
           /\ config["metadata"].description = given["metadata"].description

\* The pie tool was called with an input typed "bar" and two series.
C28_Witness ==
  /\ display.called /\ display.returned
  /\ display.tool = "displayPieChart"
  /\ display.input.config["metadata"].type = "bar"
  /\ DOMAIN display.input.config = {"metadata"} \cup SeriesKeys


(***************************************************************************)
(* Properties of the paths of streamAgent                                  *)
(***************************************************************************)
NoEventOfType(type) == \A i \in 1..Len(events) : events[i].type # type

\* C29: an invocation whose LLM calls all succeed merges exactly one response
\* stream, on one of three paths: the direct response, with no plan-update
\* and no step-status event; the empty-plan fallback; or the steps followed
\* by the synthesis, made once, without tools, after the completed:true of
\* the last step.  Nothing is merged before the invocation returns.
C29_OnePathOneStream ==
  /\ status # "returned" => merged = <<>>
  /\ status = "returned" =>
       /\ Len(merged) = 1
       /\ \/ /\ merged[1].kind = "direct"
             /\ NoEventOfType("data-planDataPart")
             /\ NoEventOfType("data-completedStepDataPart")
             /\ steps = <<>> /\ rounds = <<>>
          \/ /\ merged[1].kind = "emptyPlan"
             /\ ~NoEventOfType("data-planDataPart")
             /\ NoEventOfType("data-completedStepDataPart")
             /\ steps = <<>> /\ rounds = <<>>
          \/ /\ merged[1].kind = "synthesis"
             /\ merged[1].tools = <<>>
             /\ Len(steps) > 0
             /\ \A k \in 1..Len(steps) : ExecutionsOfStep(k) # {} /\ StepCompleted(k)
             /\ events[Len(events)] = stepStatus(Len(steps), TRUE)

\* An invocation returned on the direct path.
C29_Witness ==
  /\ status = "returned"
  /\ merged # <<>>
  /\ merged[1].kind = "direct"
  /\ events[Len(events)].type = "reasoning-end"


\* A part of the given type and id was written.
Written(type, id) ==
  \E i \in 1..Len(events) : events[i].type = type /\ events[i].id = id

\* C30: in every invocation, one whose planning-decision call fails included,
\* a reasoning-start written to the stream is eventually followed by a
\* reasoning-end with the same id.
C30_ReasoningSpanClosed ==
  Written("reasoning-start", reasoningId) ~> Written("reasoning-end", reasoningId)

====
